---- MODULE Spec2Model ----
(***************************************************************************)
(* The access gate and the daily visit counter of streamlit_app.py.        *)
(*                                                                         *)
(* A visitor's session runs the page script from the top on every browser  *)
(* event.  The script initialises the session (lines 84-88), checks the    *)
(* access status against the wall clock (94-127), shows the lock screen    *)
(* and stops when access is not granted (133-158), and otherwise calls     *)
(* update_daily_visits (163-202, called at 206) and renders the rest of    *)
(* the page.  st.rerun() ends the running script and starts it again from  *)
(* the top with the same session state and no form submission; st.stop()   *)
(* ends it.  Time is counted in whole seconds; the calendar date is the    *)
(* day number of the clock.                                                *)
(***************************************************************************)
EXTENDS Integers, Sequences, FiniteSets, TLC

\* ---- program constants (lines 74-76, 161) ----
FREE_PERIOD_SECONDS == 60
ACCESS_DURATION_HOURS == 24
UNLOCK_CODE == "vip24"

\* ---- bounds of the model ----
MaxDay == 1
MaxStored == 2

SecondsPerHour == 60 * 60
SecondsPerDay == 24 * SecondsPerHour

\* Offsets within a day at which the clock is read: around the end of the
\* free period, which is also around the end of an unlock window obtained at
\* the same offset one day earlier.
Offsets == {0, FREE_PERIOD_SECONDS - 1, FREE_PERIOD_SECONDS, FREE_PERIOD_SECONDS + 1}
Instants == {d * SecondsPerDay + o : d \in 0..MaxDay, o \in Offsets}

\* The visitors' sessions (st.session_state, one per visitor).
Sessions == {"s1", "s2"}
\* What a visitor may type into the password field (line 145).
Passwords == {UNLOCK_CODE, "wrong", ""}

\* Python's None and a present value
None == <<>>
Some(x) == <<x>>
Val(o) == o[1]

VARIABLES
    now,            \* the wall clock (datetime.datetime.now())
    file,           \* the content of visit_stats.json
    pc,             \* per session: where its script run is
    initialized,    \* per session: 'start_time' in st.session_state
    access_status,  \* st.session_state.access_status
    start_time,     \* st.session_state.start_time
    unlock_time,    \* st.session_state.unlock_time
    has_counted,    \* "has_counted" in st.session_state
    password_input, \* the text of the form's password field
    submit_button,  \* whether this run was caused by submitting the form
    screen,         \* what the last finished run left on the page
    today_str,      \* update_daily_visits' local: today's date
    file_data,      \* update_daily_visits' local: what it found in the file
    data,           \* update_daily_visits' local: the record to write
    daily_visits,   \* the value update_daily_visits returned in this run
    wrote,          \* history: the dates of the session's successful writes
    reruns,         \* history: the st.rerun() calls since the browser event
    file0           \* history: the content of visit_stats.json at the start

vars == <<now, file, pc, initialized, access_status, start_time, unlock_time,
          has_counted, password_input, submit_button, screen, today_str,
          file_data, data, daily_visits, wrote, reruns, file0>>

gateVars == <<initialized, access_status, start_time, unlock_time>>
formVars == <<password_input, submit_button>>
localVars == <<today_str, file_data, data, daily_visits>>
counterVars == <<file, has_counted, localVars, wrote>>

\* ---- the counter file ----
\* "missing": no file; "garbage": a file json.load cannot turn into a dict;
\* "rec": {"date": d, "count": c}; "nocount": a dict with a date and no
\* "count" key.
Missing == [kind |-> "missing", date |-> 0, count |-> 0]
Garbage == [kind |-> "garbage", date |-> 0, count |-> 0]
Rec(d, c) == [kind |-> "rec", date |-> d, count |-> c]
NoCount(d) == [kind |-> "nocount", date |-> d, count |-> 0]

\* datetime.date.today(): the calendar date of the clock
DateOf(t) == t \div SecondsPerDay

Init ==
    /\ now = 0
    /\ file \in {Missing, Garbage, NoCount(0)} \cup {Rec(0, c) : c \in 0..MaxStored}
    /\ pc = [s \in Sessions |-> "idle"]
    /\ initialized = [s \in Sessions |-> FALSE]
    /\ access_status = [s \in Sessions |-> "unset"]
    /\ start_time = [s \in Sessions |-> None]
    /\ unlock_time = [s \in Sessions |-> None]
    /\ has_counted = [s \in Sessions |-> FALSE]
    /\ password_input = [s \in Sessions |-> ""]
    /\ submit_button = [s \in Sessions |-> FALSE]
    /\ screen = [s \in Sessions |-> "blank"]
    /\ today_str = [s \in Sessions |-> None]
    /\ file_data = [s \in Sessions |-> None]
    /\ data = [s \in Sessions |-> None]
    /\ daily_visits = [s \in Sessions |-> None]
    /\ wrote = [s \in Sessions |-> <<>>]
    /\ reruns = [s \in Sessions |-> 0]
    /\ file0 = file

\* ---- the environment ----

\* The wall clock moves forward.
Tick(t) ==
    /\ t > now
    /\ now' = t
    /\ UNCHANGED <<pc, gateVars, formVars, screen, counterVars, reruns, file0>>

\* The wall clock is set back.
ClockBack(t) ==
    /\ t < now
    /\ now' = t
    /\ UNCHANGED <<pc, gateVars, formVars, screen, counterVars, reruns, file0>>

\* A browser event without a form submission (first load, a reconnect)
\* starts a script run.
Load(s) ==
    /\ pc[s] = "idle"
    /\ pc' = [pc EXCEPT ![s] = "init"]
    /\ submit_button' = [submit_button EXCEPT ![s] = FALSE]
    /\ UNCHANGED <<now, gateVars, password_input, screen, counterVars, reruns, file0>>

\* The visitor submits the form of the lock screen with password p
\* (lines 144-146).
SubmitForm(s, p) ==
    /\ pc[s] = "idle"
    /\ screen[s] = "lock"
    /\ pc' = [pc EXCEPT ![s] = "init"]
    /\ password_input' = [password_input EXCEPT ![s] = p]
    /\ submit_button' = [submit_button EXCEPT ![s] = TRUE]
    /\ UNCHANGED <<now, gateVars, screen, counterVars, reruns, file0>>

\* ---- the page script: session initialisation (lines 84-88) ----

\* A variant of NeedsInit: the test 'start_time is None' in place of the key test.
NeedsInitWhenNone(present, t0) == ~present \/ t0 = None

\* line 84: 'start_time' not in st.session_state
NeedsInit(present, t0) == ~present

InitSession(s) ==
    /\ pc[s] = "init"
    /\ IF NeedsInit(initialized[s], start_time[s])
       THEN /\ initialized' = [initialized EXCEPT ![s] = TRUE]
            /\ start_time' = [start_time EXCEPT ![s] = Some(now)]
            /\ access_status' = [access_status EXCEPT ![s] = "free"]
            /\ unlock_time' = [unlock_time EXCEPT ![s] = None]
       ELSE UNCHANGED gateVars
    /\ pc' = [pc EXCEPT ![s] = "check"]
    /\ UNCHANGED <<now, formVars, screen, counterVars, reruns, file0>>

\* ---- the access check (lines 94-127) ----

\* A variant of FreeGranted: <= in place of <.
FreeGrantedInclusive(current_time, t0) == current_time - t0 <= FREE_PERIOD_SECONDS

\* lines 99-101: time_elapsed < FREE_PERIOD_SECONDS
FreeGranted(current_time, t0) == current_time - t0 < FREE_PERIOD_SECONDS

\* line 113: unlock_time + timedelta(hours=ACCESS_DURATION_HOURS)
UnlockExpiry(t1) == t1 + ACCESS_DURATION_HOURS * SecondsPerHour

\* A variant of UnlockGranted: the window is measured from the current time.
UnlockGrantedSliding(current_time, t1) == current_time < UnlockExpiry(current_time)

\* A variant of UnlockGranted: <= in place of <.
UnlockGrantedInclusive(current_time, t1) == current_time <= UnlockExpiry(t1)

\* line 115: current_time < unlock_expiry
UnlockGranted(current_time, t1) == current_time < UnlockExpiry(t1)

\* A variant of Rerun: the submit trigger of the form survives the re-run.
RerunKeepsSubmit(s) ==
    /\ pc' = [pc EXCEPT ![s] = "init"]
    /\ reruns' = [reruns EXCEPT ![s] = @ + 1]
    /\ UNCHANGED <<password_input, submit_button, screen>>

\* st.rerun() (lines 110, 127, 153): the run ends and the script starts again
\* from the top; the form's submit trigger is not carried over.
Rerun(s) ==
    /\ pc' = [pc EXCEPT ![s] = "init"]
    /\ submit_button' = [submit_button EXCEPT ![s] = FALSE]
    /\ reruns' = [reruns EXCEPT ![s] = @ + 1]
    /\ UNCHANGED <<password_input, screen>>

\* A variant of StopLocked: st.stop() left out, the script runs on.
StopLockedFallsThrough(s) ==
    /\ pc' = [pc EXCEPT ![s] = "count"]
    /\ submit_button' = [submit_button EXCEPT ![s] = FALSE]
    /\ UNCHANGED <<password_input, screen, reruns>>

\* st.stop() on the lock screen (line 158): the run ends showing the form.
StopLocked(s) ==
    /\ pc' = [pc EXCEPT ![s] = "idle"]
    /\ submit_button' = [submit_button EXCEPT ![s] = FALSE]
    /\ screen' = [screen EXCEPT ![s] = "lock"]
    /\ reruns' = [reruns EXCEPT ![s] = 0]
    /\ UNCHANGED password_input

\* An uncaught exception (arithmetic on a None time, lines 99 and 113) ends
\* the run with an error page.
Crash(s) ==
    /\ pc' = [pc EXCEPT ![s] = "idle"]
    /\ submit_button' = [submit_button EXCEPT ![s] = FALSE]
    /\ screen' = [screen EXCEPT ![s] = "error"]
    /\ reruns' = [reruns EXCEPT ![s] = 0]
    /\ UNCHANGED password_input

\* access_granted = True (lines 103, 117): line 133 is skipped and the script
\* goes on to update_daily_visits (line 206).
PassGate(s) ==
    /\ pc' = [pc EXCEPT ![s] = "count"]
    /\ UNCHANGED <<formVars, screen, reruns>>

\* lines 98-110: the 'free' branch
CheckFree(s) ==
    /\ pc[s] = "check"
    /\ access_status[s] = "free"
    /\ IF start_time[s] = None
       THEN Crash(s) /\ UNCHANGED gateVars
       ELSE IF FreeGranted(now, Val(start_time[s]))
       THEN PassGate(s) /\ UNCHANGED gateVars
       ELSE /\ access_status' = [access_status EXCEPT ![s] = "locked"]
            /\ start_time' = [start_time EXCEPT ![s] = None]
            /\ Rerun(s)
            /\ UNCHANGED <<initialized, unlock_time>>
    /\ UNCHANGED <<now, counterVars, file0>>

\* A variant of CheckUnlocked: line 126 left out, the expired unlock time
\* stays in the session.
CheckUnlockedKeepsTime(s) ==
    /\ pc[s] = "check"
    /\ access_status[s] = "unlocked"
    /\ IF unlock_time[s] = None
       THEN Crash(s) /\ UNCHANGED gateVars
       ELSE IF UnlockGranted(now, Val(unlock_time[s]))
       THEN PassGate(s) /\ UNCHANGED gateVars
       ELSE /\ access_status' = [access_status EXCEPT ![s] = "locked"]
            /\ Rerun(s)
            /\ UNCHANGED <<initialized, start_time, unlock_time>>
    /\ UNCHANGED <<now, counterVars, file0>>

\* lines 112-127: the 'unlocked' branch
CheckUnlocked(s) ==
    /\ pc[s] = "check"
    /\ access_status[s] = "unlocked"
    /\ IF unlock_time[s] = None
       THEN Crash(s) /\ UNCHANGED gateVars
       ELSE IF UnlockGranted(now, Val(unlock_time[s]))
       THEN PassGate(s) /\ UNCHANGED gateVars
       ELSE /\ access_status' = [access_status EXCEPT ![s] = "locked"]
            /\ unlock_time' = [unlock_time EXCEPT ![s] = None]
            /\ Rerun(s)
            /\ UNCHANGED <<initialized, start_time>>
    /\ UNCHANGED <<now, counterVars, file0>>

\* A variant of PasswordOk: any submitted text passes.
PasswordOkAny(p) == TRUE

\* line 149: password_input == UNLOCK_CODE
PasswordOk(p) == p = UNLOCK_CODE

\* A variant of LockScreen: the status kept in one variable of the server
\* process in place of st.session_state, so an unlock reaches every session.
LockScreenGlobal(s) ==
    /\ pc[s] = "check"
    /\ access_status[s] \notin {"free", "unlocked"}
    /\ IF submit_button[s] /\ PasswordOk(password_input[s])
       THEN /\ access_status' = [o \in Sessions |-> "unlocked"]
            /\ unlock_time' = [unlock_time EXCEPT ![s] = Some(now)]
            /\ Rerun(s)
            /\ UNCHANGED <<initialized, start_time>>
       ELSE StopLocked(s) /\ UNCHANGED gateVars
    /\ UNCHANGED <<now, counterVars, file0>>

\* lines 133-158: neither branch granted access (the status is 'locked'):
\* the lock screen, its form and st.stop()
LockScreen(s) ==
    /\ pc[s] = "check"
    /\ access_status[s] \notin {"free", "unlocked"}
    /\ IF submit_button[s] /\ PasswordOk(password_input[s])
       THEN /\ access_status' = [access_status EXCEPT ![s] = "unlocked"]
            /\ unlock_time' = [unlock_time EXCEPT ![s] = Some(now)]
            /\ Rerun(s)
            /\ UNCHANGED <<initialized, start_time>>
       ELSE StopLocked(s) /\ UNCHANGED gateVars
    /\ UNCHANGED <<now, counterVars, file0>>

\* ---- update_daily_visits (lines 163-202) ----

\* lines 170-173, 181-184: what os.path.exists, open and json.load find; a
\* read that raises (no permission, an I/O error, unparseable content) is
\* caught by the bare except
Observed(f, readable) ==
    IF f.kind = "missing" THEN Missing
    ELSE IF ~readable \/ f.kind = "garbage" THEN Garbage
    ELSE f

\* lines 170-176: the count returned when the session has already counted:
\* json.load(f).get("count", 0), whatever the record's date
StoredCount(fd) == IF fd.kind = "rec" THEN fd.count ELSE 0

\* A variant of LoadData: the date test of line 185 left out.
LoadDataIgnoresDate(fd, today) ==
    IF fd.kind \in {"rec", "nocount"} THEN fd ELSE Rec(today, 0)

\* lines 179-188: today's record, or a fresh one when the file is missing,
\* unreadable, unparseable or of another date
LoadData(fd, today) ==
    IF fd.kind \in {"rec", "nocount"} /\ fd.date = today
    THEN fd
    ELSE Rec(today, 0)

\* line 191: data["count"] += 1
Increment(d) == Rec(d.date, d.count + 1)

\* return from update_daily_visits into line 206
Return(s, v) ==
    /\ daily_visits' = [daily_visits EXCEPT ![s] = Some(v)]
    /\ pc' = [pc EXCEPT ![s] = "render"]

\* A variant of AlreadyCounted: the session test of line 169 left out.
AlreadyCountedNever(h) == FALSE

\* line 169: "has_counted" in st.session_state
AlreadyCounted(h) == h

\* lines 165-191: everything up to the write
RecordVisitRead(s, readable) ==
    /\ pc[s] = "count"
    /\ LET today == DateOf(now)
           fd == Observed(file, readable)
           d == LoadData(fd, today)
       IN  /\ today_str' = [today_str EXCEPT ![s] = Some(today)]
           /\ file_data' = [file_data EXCEPT ![s] = Some(fd)]
           /\ IF AlreadyCounted(has_counted[s])
              THEN /\ Return(s, StoredCount(fd))
                   /\ UNCHANGED data
              ELSE IF d.kind = "nocount"
              THEN \* KeyError at line 191, caught at line 200
                   /\ Return(s, 0)
                   /\ UNCHANGED data
              ELSE /\ data' = [data EXCEPT ![s] = Some(Increment(d))]
                   /\ pc' = [pc EXCEPT ![s] = "write"]
                   /\ UNCHANGED daily_visits
    /\ UNCHANGED <<now, file, gateVars, formVars, screen, has_counted, wrote,
                   reruns, file0>>

\* A variant of FileAfterWrite: a write that adds its increment to the record
\* found in the file at the time of the write.
FileAfterWriteMerging(f, d, outcome) ==
    IF outcome = "ok"
    THEN IF f.kind = "rec" /\ f.date = d.date /\ f.count >= d.count
         THEN Rec(f.date, f.count + 1)
         ELSE d
    ELSE IF outcome = "open_fails" THEN f
    ELSE Garbage

\* lines 194-195: open(COUNTER_FILE, "w") may raise and leave the file as it
\* was; once it has truncated the file, json.dump may raise and leave it
\* incomplete
WriteOutcomes == {"ok", "open_fails", "dump_fails"}

FileAfterWrite(f, d, outcome) ==
    IF outcome = "ok" THEN d
    ELSE IF outcome = "open_fails" THEN f
    ELSE Garbage

\* A variant of CountedAfterWrite: the flag set whether or not the write raised.
CountedAfterWriteAlways(h, outcome) == TRUE

\* line 197: st.session_state["has_counted"] = True, reached only when the
\* write raised nothing
CountedAfterWrite(h, outcome) == IF outcome = "ok" THEN TRUE ELSE h

\* A variant of ReturnAfterWrite: the new count returned whether or not the write raised.
ReturnAfterWriteAlways(d, outcome) == d.count

\* lines 198, 202: the value returned
ReturnAfterWrite(d, outcome) == IF outcome = "ok" THEN d.count ELSE 0

\* lines 194-202
RecordVisitWrite(s, outcome) ==
    /\ pc[s] = "write"
    /\ file' = FileAfterWrite(file, Val(data[s]), outcome)
    /\ has_counted' = [has_counted EXCEPT ![s] = CountedAfterWrite(has_counted[s], outcome)]
    /\ wrote' = [wrote EXCEPT ![s] = IF outcome = "ok"
                                     THEN Append(wrote[s], Val(data[s]).date)
                                     ELSE wrote[s]]
    /\ Return(s, ReturnAfterWrite(Val(data[s]), outcome))
    /\ UNCHANGED <<now, gateVars, formVars, screen, today_str, file_data, data,
                   reruns, file0>>

\* lines 208-292: the rest of the page is rendered and the run ends; the
\* lock form was not drawn in this run, so its field is forgotten
Render(s) ==
    /\ pc[s] = "render"
    /\ pc' = [pc EXCEPT ![s] = "idle"]
    /\ screen' = [screen EXCEPT ![s] = "content"]
    /\ password_input' = [password_input EXCEPT ![s] = ""]
    /\ today_str' = [today_str EXCEPT ![s] = None]
    /\ file_data' = [file_data EXCEPT ![s] = None]
    /\ data' = [data EXCEPT ![s] = None]
    /\ daily_visits' = [daily_visits EXCEPT ![s] = None]
    /\ reruns' = [reruns EXCEPT ![s] = 0]
    /\ UNCHANGED <<now, file, gateVars, submit_button, has_counted, wrote, file0>>

\* One step of the page script of session s, or a browser event of s.
Run(s) ==
    \/ Load(s)
    \/ \E p \in Passwords : SubmitForm(s, p)
    \/ InitSession(s)
    \/ CheckFree(s)
    \/ CheckUnlocked(s)
    \/ LockScreen(s)
    \/ \E readable \in BOOLEAN : RecordVisitRead(s, readable)
    \/ \E outcome \in WriteOutcomes : RecordVisitWrite(s, outcome)
    \/ Render(s)

\* One visitor and the clock.
Next ==
    \/ \E t \in Instants : Tick(t)
    \/ \E t \in Instants : ClockBack(t)
    \/ Run("s1")

Spec == Init /\ [][Next]_vars

\* The clock reads at the start of each day.
DayStarts == {d * SecondsPerDay : d \in 0..MaxDay}

\* Every visitor, their script runs interleaved step by step, and a clock
\* that moves forward from day to day.
NextVisitors ==
    \/ \E t \in DayStarts : Tick(t)
    \/ \E s \in Sessions : Run(s)

SpecVisitors == Init /\ [][NextVisitors]_vars

\* One visitor and a clock that only moves forward.
NextForward ==
    \/ \E t \in Instants : Tick(t)
    \/ Run("s1")

\* The clock keeps advancing as long as it can, and the visitor's browser
\* keeps sending events and the script keeps running to its end.
FairSpec ==
    /\ Init /\ [][NextForward]_vars
    /\ WF_vars(\E t \in Instants : Tick(t))
    /\ WF_vars(Run("s1"))

\* ---- vocabulary of the properties ----

\* Session s takes a step: only its own events and script steps move its pc.
Steps(s) == pc'[s] # pc[s]

\* The run of s is past line 133 with access granted.
Granted(s) == pc[s] \in {"count", "write", "render"}

\* The access check of s, read at the current clock, does not grant access.
Denied(s) ==
    \/ access_status[s] = "locked"
    \/ /\ access_status[s] = "free"
       /\ start_time[s] # None
       /\ now - Val(start_time[s]) >= 60
    \/ /\ access_status[s] = "unlocked"
       /\ unlock_time[s] # None
       /\ now >= Val(unlock_time[s]) + 24 * 3600

\* The run of s is handling a submission of a password other than the secret.
WrongSubmission(s) == submit_button[s] /\ password_input[s] # "vip24"

\* What update_daily_visits found is an unreadable or corrupt store.
Corrupt(fd) == fd.kind \in {"garbage", "nocount"}

\* ---- C1 ----
\* C1: while a session is free with start_time = t0, an access check that
\* reads the clock at t with t - t0 < 60 grants access and leaves the session
\* free; a check with t - t0 >= 60 grants nothing, sets the status to locked
\* and re-runs the script, and that re-run, which carries no submission, ends
\* on the lock screen with the status still locked.
C1_FreeWindow ==
    [][\A s \in Sessions :
        /\ (pc[s] = "check" /\ Steps(s) /\ access_status[s] = "free"
                /\ start_time[s] # None) =>
              IF now - Val(start_time[s]) < 60
              THEN /\ pc'[s] = "count"
                   /\ access_status'[s] = "free"
                   /\ start_time'[s] = start_time[s]
              ELSE /\ pc'[s] = "init"
                   /\ ~submit_button'[s]
                   /\ access_status'[s] = "locked"
        /\ (access_status[s] = "locked" /\ ~submit_button[s]
                /\ pc[s] \in {"init", "check"} /\ Steps(s)) =>
              /\ access_status'[s] = "locked"
              /\ IF pc[s] = "init"
                 THEN pc'[s] = "check" /\ ~submit_button'[s]
                 ELSE pc'[s] = "idle" /\ screen'[s] = "lock"
      ]_vars

\* The trial of s1 has expired at the clock value 60 after s1 had been
\* granted access and counted, and the re-run has ended on the lock screen.
C1_Witness ==
    /\ access_status["s1"] = "locked"
    /\ unlock_time["s1"] = None
    /\ pc["s1"] = "idle"
    /\ screen["s1"] = "lock"
    /\ password_input["s1"] = ""
    /\ has_counted["s1"]
    /\ now = 60

\* ---- C2 ----
\* C2: handling a submission of "vip24" on a locked session at clock t1 sets
\* the status to unlocked with unlock_time = t1; while the session is unlocked
\* with unlock_time = t1, a check at t < t1 + 24h grants access and keeps it
\* unlocked, and a check at t >= t1 + 24h grants nothing and sets it locked.
C2_UnlockWindow ==
    [][\A s \in Sessions :
        /\ (pc[s] = "check" /\ Steps(s) /\ access_status[s] = "locked"
                /\ submit_button[s] /\ password_input[s] = "vip24") =>
              /\ access_status'[s] = "unlocked"
              /\ unlock_time'[s] = Some(now)
        /\ (pc[s] = "check" /\ Steps(s) /\ access_status[s] = "unlocked"
                /\ unlock_time[s] # None) =>
              IF now < Val(unlock_time[s]) + 24 * 3600
              THEN /\ pc'[s] = "count"
                   /\ access_status'[s] = "unlocked"
                   /\ unlock_time'[s] = unlock_time[s]
              ELSE /\ pc'[s] = "init"
                   /\ access_status'[s] = "locked"
      ]_vars

\* s1, unlocked at 60, is granted access one second before the window ends.
C2_Witness ==
    /\ access_status["s1"] = "unlocked"
    /\ unlock_time["s1"] = Some(60)
    /\ now = 24 * 3600 + 59
    /\ pc["s1"] = "count"

\* ---- C3 ----
\* C3: every step of a run that handles a wrong password on a locked session
\* leaves access_status, start_time, unlock_time and has_counted as they were,
\* and the run ends on the lock screen without granting access; whenever a
\* locked session is idle, whatever was submitted before, submitting the
\* secret is possible, and handling it unlocks.
C3_WrongPassword ==
    /\ [](\A s \in Sessions :
            (access_status[s] = "locked" /\ pc[s] = "idle") =>
                ENABLED SubmitForm(s, UNLOCK_CODE))
    /\ [][\A s \in Sessions :
            /\ (access_status[s] = "locked" /\ WrongSubmission(s)
                    /\ pc[s] \in {"init", "check"} /\ Steps(s)) =>
                  /\ access_status'[s] = access_status[s]
                  /\ start_time'[s] = start_time[s]
                  /\ unlock_time'[s] = unlock_time[s]
                  /\ has_counted'[s] = has_counted[s]
                  /\ IF pc[s] = "init"
                     THEN pc'[s] = "check" /\ WrongSubmission(s)'
                     ELSE pc'[s] = "idle" /\ screen'[s] = "lock"
            /\ (access_status[s] = "locked" /\ pc[s] = "check" /\ Steps(s)
                    /\ submit_button[s] /\ ~WrongSubmission(s)) =>
                  access_status'[s] = "unlocked"
       ]_vars

\* s1 is back on the lock screen after a wrong password.
C3_Witness ==
    /\ access_status["s1"] = "locked"
    /\ pc["s1"] = "idle"
    /\ screen["s1"] = "lock"
    /\ password_input["s1"] = "wrong"
    /\ ~submit_button["s1"]
    /\ now > 0

\* ---- C4 ----
\* C4: an access check that does not grant access ends the run or re-runs it
\* without entering update_daily_visits, and leaves the counter file, the
\* has_counted flag and the returned count untouched; update_daily_visits is
\* entered only from a check that grants; no step outside update_daily_visits
\* touches the file or the flag.
C4_DeniedSkipsCounter ==
    [][\A s \in Sessions :
        /\ (pc[s] = "check" /\ Steps(s) /\ Denied(s)) =>
              /\ pc'[s] \in {"init", "idle"}
              /\ file' = file
              /\ has_counted'[s] = has_counted[s]
              /\ wrote'[s] = wrote[s]
              /\ daily_visits'[s] = None
        /\ (pc'[s] = "count" /\ Steps(s)) =>
              pc[s] = "check" /\ ~Denied(s)
        /\ (pc[s] \notin {"count", "write"} /\ Steps(s)) =>
              file' = file /\ has_counted'[s] = has_counted[s]
      ]_vars

\* s1 was denied at its only evaluations and has never counted.
C4_Witness ==
    /\ access_status["s1"] = "locked"
    /\ pc["s1"] = "idle"
    /\ screen["s1"] = "lock"
    /\ ~has_counted["s1"]
    /\ wrote["s1"] = <<>>
    /\ file = Rec(0, 2)

\* ---- C5 ----
\* C5: a session completes at most one successful write of the counter file,
\* has_counted is set exactly when it has completed one, and once has_counted
\* is set no step of the session changes the file or clears the flag.
C5_CountsOncePerSession ==
    /\ [](\A s \in Sessions :
            /\ Len(wrote[s]) <= 1
            /\ has_counted[s] <=> (Len(wrote[s]) = 1))
    /\ [][\A s \in Sessions :
            (has_counted[s] /\ Steps(s)) =>
                /\ file' = file
                /\ has_counted'[s]
                /\ pc'[s] # "write"
       ]_vars

\* s1 has counted, and a later call of update_daily_visits has returned
\* the stored count without writing.
C5_Witness ==
    /\ has_counted["s1"]
    /\ pc["s1"] = "render"
    /\ data["s1"] = None
    /\ wrote["s1"] = <<0>>
    /\ file = Rec(0, 3)
    /\ daily_visits["s1"] = Some(3)

\* ---- C6 ----
\* C6: when a session that has not counted reads the stored record
\* {date: D, count: N}, the record it prepares is {today, N + 1} if D is
\* today and {today, 1} otherwise; a successful write stores exactly the
\* prepared record and returns its count.
C6_DayRollover ==
    [][\A s \in Sessions :
        /\ (pc[s] = "count" /\ Steps(s) /\ ~has_counted[s]
                /\ file.kind = "rec" /\ file_data'[s] = Some(file)) =>
              /\ pc'[s] = "write"
              /\ data'[s] = Some(IF file.date = now \div (24 * 3600)
                                 THEN Rec(file.date, file.count + 1)
                                 ELSE Rec(now \div (24 * 3600), 1))
        /\ (pc[s] = "write" /\ Steps(s) /\ wrote'[s] # wrote[s]) =>
              /\ file' = Val(data[s])
              /\ daily_visits'[s] = Some(Val(data[s]).count)
      ]_vars

\* s1 called on day 1 against the stored record {day 0, 2}: the file now
\* holds {day 1, 1} and the call returned 1.
C6_Witness ==
    /\ pc["s1"] = "render"
    /\ file_data["s1"] = Some(Rec(0, 2))
    /\ today_str["s1"] = Some(1)
    /\ file = Rec(1, 1)
    /\ daily_visits["s1"] = Some(1)

C8_WriteFailureRetries ==
    [][\A s \in Sessions :
        /\ (pc[s] = "write" /\ Steps(s) /\ wrote'[s] = wrote[s]) =>
              /\ pc'[s] = "render"
              /\ daily_visits'[s] = Some(0)
              /\ ~has_counted'[s]
        /\ (pc[s] = "count" /\ Steps(s) /\ ~has_counted[s]) =>
              \/ pc'[s] = "write" /\ data'[s] # None
              \/ /\ Val(file_data'[s]).kind = "nocount"
                 /\ Val(file_data'[s]).date = Val(today_str'[s])
        /\ (pc[s] = "write" /\ Steps(s) /\ wrote'[s] # wrote[s]) =>
              /\ has_counted'[s]
              /\ file' = Val(data[s])
              /\ file'.kind = "rec" /\ file'.count >= 1
              /\ daily_visits'[s] = Some(file'.count)
      ]_vars

\* s1 attempted the write, it failed, and the call returned 0 with
\* has_counted still unset.
C8_Witness ==
    /\ pc["s1"] = "render"
    /\ data["s1"] # None
    /\ ~has_counted["s1"]
    /\ wrote["s1"] = <<>>
    /\ daily_visits["s1"] = Some(0)

\* ---- C9 ----
\* The stored record's count for the date today: 0 unless it is a record of
\* today.
CountForToday(fd, today) ==
    IF fd.kind = "rec" /\ fd.date = today THEN fd.count ELSE 0

\* C9 as stated: a call of update_daily_visits made with has_counted already
\* set returned the stored record's count for today, a record of another date
\* counting as 0.
C9_CountedReturnsTodaysCount ==
    \A s \in Sessions :
        (pc[s] = "render" /\ has_counted[s] /\ data[s] = None) =>
            daily_visits[s] = Some(CountForToday(Val(file_data[s]), Val(today_str[s])))

\* ---- C10 ----
\* C10: a locked session is never past the gate, and the only step that
\* takes a session out of locked is the handling of a submitted "vip24",
\* which makes it unlocked; every other step, at any clock value, leaves it
\* locked.
C10_LockedUntilPassword ==
    [][\A s \in Sessions :
        access_status[s] = "locked" =>
            /\ ~Granted(s)
            /\ access_status'[s] # "locked" =>
                  /\ pc[s] = "check"
                  /\ submit_button[s]
                  /\ password_input[s] = "vip24"
                  /\ access_status'[s] = "unlocked"
      ]_vars

\* s1 is locked and back on the lock screen after a wrong password, with the
\* clock set back to 0, before the time it was locked at.
C10_Witness ==
    /\ access_status["s1"] = "locked"
    /\ pc["s1"] = "idle"
    /\ screen["s1"] = "lock"
    /\ password_input["s1"] = "wrong"
    /\ now = 0

\* ---- C11 ----
\* C11: nothing keeps two sessions out of update_daily_visits at the same
\* time: a session that has entered it can always take its read, and one that
\* has prepared a record can always take its write, whatever the other
\* sessions are doing; and a successful write stores the record prepared from
\* what the session read earlier, whatever the file holds at the time of the
\* write.  So two sessions that read the same count N both store N + 1.
C11_LostUpdate ==
    /\ [](\A s \in Sessions :
            /\ pc[s] = "count" => ENABLED RecordVisitRead(s, TRUE)
            /\ pc[s] = "write" => ENABLED RecordVisitWrite(s, "ok"))
    /\ [][\A s \in Sessions :
            (pc[s] = "write" /\ Steps(s) /\ wrote'[s] # wrote[s]) =>
                /\ file' = Increment(LoadData(Val(file_data[s]), Val(today_str[s])))
                /\ has_counted'[s]
       ]_vars

\* Both sessions read {day 0, 2} and both wrote {day 0, 3}: both have counted
\* and the stored count has risen by 1.
C11_Witness ==
    /\ file0 = Rec(0, 2)
    /\ file = Rec(0, 3)
    /\ \A s \in Sessions :
          /\ pc[s] = "render"
          /\ file_data[s] = Some(Rec(0, 2))
          /\ has_counted[s]
          /\ wrote[s] = <<0>>
          /\ daily_visits[s] = Some(3)

\* ---- C12 ----
\* C12: from the first evaluation on, and so at the end of every page
\* evaluation (st.stop(), st.rerun() or the end of the script), the session's
\* access_status is one of free, locked, unlocked, start_time is set exactly
\* when the status is free, and unlock_time is set exactly when the status is
\* unlocked.
C12_StatusAndTimes ==
    \A s \in Sessions :
        initialized[s] =>
            /\ access_status[s] \in {"free", "locked", "unlocked"}
            /\ start_time[s] # None <=> access_status[s] = "free"
            /\ unlock_time[s] # None <=> access_status[s] = "unlocked"

\* A session that was unlocked and has expired sits on the lock screen with
\* both times cleared.
C12_Witness ==
    /\ pc["s1"] = "idle"
    /\ screen["s1"] = "lock"
    /\ access_status["s1"] = "locked"
    /\ start_time["s1"] = None
    /\ unlock_time["s1"] = None
    /\ wrote["s1"] # <<>>
    /\ now >= SecondsPerDay + FREE_PERIOD_SECONDS

\* ---- C13 ----
\* The evaluation of session s that finds the free or the unlocked window
\* expired (lines 106-110, 123-127).
DetectsExpiry(s) ==
    /\ pc[s] = "check"
    /\ access_status[s] \in {"free", "unlocked"}
    /\ access_status'[s] = "locked"

\* C13, as claimed: no browser event is followed by more than one st.rerun().
\* Violated: the re-run after a successful unlock reads the clock again
\* (line 94), and when that read is 24 hours or more after the read of line
\* 151 it locks the session and re-runs a second time.
C13_AtMostOneRerun == \A s \in Sessions : reruns[s] <= 1

\* C13, amended: a browser event is followed by at most two st.rerun()
\* calls.  The evaluation that detects an expiry ends in st.rerun() and
\* renders no gated content; the re-run of a locked session carries no
\* submission and ends in the lock prompt without a further re-run; the
\* re-run after a successful unlock ends in a granted render when its clock
\* read is inside the new 24 hour window, and otherwise locks the session
\* and re-runs once more.
C13_RerunsTerminate ==
    /\ [](\A s \in Sessions :
            /\ reruns[s] <= 2
            /\ (reruns[s] >= 1 /\ access_status[s] = "locked") => ~submit_button[s])
    /\ [][\A s \in Sessions :
            /\ (DetectsExpiry(s) /\ Steps(s)) =>
                  pc'[s] = "init" /\ reruns'[s] = reruns[s] + 1
            /\ (pc[s] = "check" /\ reruns[s] >= 1 /\ Steps(s)
                  /\ access_status[s] = "locked") =>
                  /\ pc'[s] = "idle" /\ screen'[s] = "lock"
                  /\ access_status'[s] = "locked" /\ reruns'[s] = 0
            /\ (pc[s] = "check" /\ reruns[s] >= 1 /\ Steps(s)
                  /\ access_status[s] = "unlocked") =>
                  IF now < Val(unlock_time[s]) + 24 * 3600
                  THEN pc'[s] = "count" /\ access_status'[s] = "unlocked"
                  ELSE DetectsExpiry(s) /\ reruns[s] = 1
       ]_vars

\* The second re-run: the unlock of line 150 was followed by a re-run that
\* found the window expired, and the session is about to show the lock prompt.
C13_Witness ==
    /\ pc["s1"] = "check"
    /\ reruns["s1"] = 2
    /\ access_status["s1"] = "locked"
    /\ password_input["s1"] = UNLOCK_CODE

\* ---- C14 ----
\* The status changes the claim allows.
AllowedChanges ==
    {<<"unset", "free">>, <<"free", "locked">>,
     <<"locked", "unlocked">>, <<"unlocked", "locked">>}

\* C14: the status of a session changes only from unset to free (the first
\* evaluation), free to locked, locked to unlocked and unlocked to locked: a
\* session that has left free never returns to it and unlocked is never
\* entered from free.  After the first evaluation the session initialisation
\* assigns nothing, and start_time, once cleared, stays cleared.
C14_NoSecondTrial ==
    [][\A s \in Sessions :
          /\ access_status'[s] # access_status[s] =>
                <<access_status[s], access_status'[s]>> \in AllowedChanges
          /\ (pc[s] = "init" /\ initialized[s] /\ Steps(s)) =>
                /\ access_status'[s] = access_status[s]
                /\ start_time'[s] = start_time[s]
                /\ unlock_time'[s] = unlock_time[s]
          /\ (initialized[s] /\ start_time[s] = None) => start_time'[s] = None
      ]_vars

\* A session that has left free, has unlocked since, and has just passed the
\* session initialisation again with start_time still cleared.
C14_Witness ==
    /\ pc["s1"] = "check"
    /\ reruns["s1"] = 0
    /\ access_status["s1"] = "unlocked"
    /\ start_time["s1"] = None
    /\ screen["s1"] = "content"

\* ---- C15 ----
\* The last instant of the clock.
LastInstant == CHOOSE t \in Instants : \A u \in Instants : u <= t

\* C15: with a clock that keeps advancing and a session that keeps being
\* evaluated, a free session whose 60 seconds end within the clock's range
\* becomes locked, and an unlocked session whose 24 hours end within the
\* clock's range becomes locked again.  A locked session at rest shows the
\* form and can always submit the unlock code, and the evaluation of a correct
\* submission on a locked session unlocks it with unlock_time set to the time
\* of that evaluation.  The session can always take a further step.
C15_NoTerminalState ==
    /\ \A s \in Sessions :
          (/\ access_status[s] = "free" /\ start_time[s] # None
           /\ Val(start_time[s]) + 60 <= LastInstant)
             ~> (access_status[s] = "locked")
    /\ \A s \in Sessions :
          (/\ access_status[s] = "unlocked" /\ unlock_time[s] # None
           /\ Val(unlock_time[s]) + 24 * 3600 <= LastInstant)
             ~> (access_status[s] = "locked")
    /\ [](/\ ENABLED Run("s1")
          /\ \A s \in Sessions :
               (pc[s] = "idle" /\ access_status[s] = "locked") =>
                   screen[s] = "lock" /\ ENABLED SubmitForm(s, "vip24"))
    /\ [][\A s \in Sessions :
            (/\ pc[s] = "check" /\ Steps(s)
             /\ access_status[s] = "locked"
             /\ submit_button[s] /\ password_input[s] = "vip24") =>
                /\ access_status'[s] = "unlocked"
                /\ unlock_time'[s] = Some(now)
       ]_vars

\* A second round of the cycle: the session unlocked on day 1, after the
\* window of an unlock on day 0 could have run out, and the new window is
\* measured from the new submission.
C15_Witness ==
    /\ pc["s1"] = "check"
    /\ reruns["s1"] = 1
    /\ access_status["s1"] = "unlocked"
    /\ unlock_time["s1"] = Some(SecondsPerDay + FREE_PERIOD_SECONDS)
    /\ now = SecondsPerDay + FREE_PERIOD_SECONDS

\* ---- C16 ----
\* The fields of session s kept in st.session_state.
SessionState(s) ==
    <<initialized[s], access_status[s], start_time[s], unlock_time[s],
      has_counted[s]>>

\* Everything the model keeps for session s: its session state, its widgets,
\* its screen, its position in the script and the script's local variables.
SessionFields(s) ==
    <<SessionState(s), pc[s], password_input[s], submit_button[s], screen[s],
      today_str[s], file_data[s], data[s], daily_visits[s]>>

\* C16: a step of one session's script changes no field of another session.
\* A step of the gate (the start of an evaluation, with or without a
\* submission, the session initialisation, the access check and the lock
\* screen) leaves visit_stats.json and has_counted as they are.  A step of
\* update_daily_visits leaves access_status, start_time and unlock_time as
\* they are.
C16_Frame ==
    [][\A s \in Sessions :
          Steps(s) =>
             /\ \A o \in Sessions \ {s} : SessionFields(o)' = SessionFields(o)
             /\ pc[s] \in {"idle", "init", "check"} =>
                   /\ file' = file
                   /\ has_counted' = has_counted
             /\ pc[s] \in {"count", "write"} =>
                   /\ access_status' = access_status
                   /\ start_time' = start_time
                   /\ unlock_time' = unlock_time
      ]_vars

\* One session has just unlocked with the code while the other, which has
\* recorded its visit, is locked.
C16_Witness ==
    /\ pc["s1"] = "check"
    /\ reruns["s1"] = 1
    /\ access_status["s1"] = "unlocked"
    /\ access_status["s2"] = "locked"
    /\ wrote["s2"] # <<>>

\* ---- C17 ----
\* C17, as claimed: a call of update_daily_visits that fails (it returns 0 and
\* has_counted is not set) leaves visit_stats.json exactly as it was.
\* Violated: open(COUNTER_FILE, "w") at line 194 truncates the file before
\* json.dump writes, so a failure between the two (line 195, or the flush on
\* leaving the with block) is caught at line 200 with the old record gone.
C17_FailedCallKeepsRecord ==
    [][\A s \in Sessions :
          (/\ pc[s] \in {"count", "write"} /\ Steps(s)
           /\ daily_visits'[s] = Some(0)
           /\ ~has_counted'[s]) => file' = file
      ]_vars

\* ---- C18 ----
\* The count for date d that visit_stats.json held at the start, left there by
\* the sessions before.
Base(d) == IF file0.kind = "rec" /\ file0.date = d THEN file0.count ELSE 0

\* The sessions whose update_daily_visits completed a write for date d.
Writers(d) == {s \in Sessions : \E i \in 1..Len(wrote[s]) : wrote[s][i] = d}

\* C18: under any interleaving of the sessions, day rollovers, unreadable or
\* corrupt files and failed writes, the count stored for a date is at most
\* the count it started from plus the number of sessions that completed a
\* write for that date, and no session completes more than one write.  A
\* write that follows a faithful read with no other write in between adds
\* exactly one to today's record, or stores 1 when the file is missing or
\* holds another date, so without concurrency and failures the bound is met
\* with equality.
C18_NeverOverCounts ==
    /\ [](/\ file.kind = "rec" =>
                file.count <= Base(file.date) + Cardinality(Writers(file.date))
          /\ \A s \in Sessions : Len(wrote[s]) <= 1)
    /\ [][\A s \in Sessions :
            (/\ pc[s] = "write" /\ Steps(s) /\ wrote'[s] # wrote[s]
             /\ file_data[s] = Some(file)) =>
                IF file.kind = "rec" /\ file.date = Val(today_str[s])
                THEN file' = Rec(file.date, file.count + 1)
                ELSE file.kind \in {"missing", "rec"} =>
                        file' = Rec(Val(today_str[s]), 1)
       ]_vars

\* Two sessions, one after the other, on a record that started at 2: the
\* stored count is 4, the bound met with equality.
C18_Witness ==
    /\ file0 = Rec(0, 2)
    /\ file = Rec(0, 4)
    /\ \A s \in Sessions : wrote[s] = <<0>> /\ has_counted[s]

====
